---- MODULE Spec2Model ----
(***************************************************************************)
(* Kaleidoscope vinyl generator (p5.js sketch): the two drawers, the       *)
(* per-frame draw() callback and the button handlers.                      *)
(*                                                                         *)
(* Units.  The sketch works in floating point; the model keeps every       *)
(* quantity as an exact integer multiple of the step of the slider that    *)
(* feeds it:                                                               *)
(*   - time and tIncrement in ticks of 0.005 (the draw-speed slider step), *)
(*     TimeUnit ticks to 1.0;                                              *)
(*   - the colour cursor and colour rate in ticks of 0.005 (the colour     *)
(*     rate slider step), ColorUnit ticks to one palette slot;             *)
(*   - trigonometric arguments in units of 0.05 degree (angleMode is       *)
(*     DEGREES), AngleUnit units to a degree, FullTurn to 360 degrees;     *)
(*   - rotations of the canvas transform in whole degrees modulo 360.      *)
(***************************************************************************)
EXTENDS Integers, Sequences, FiniteSets, TLC

\* symmetry, angle   the globals the kaleidoscope loop reads
\* autoPaused        the pause flag
\* currentDrawer     which drawer draw() calls: "mouse" or "auto"
\* mouseDrawer       the MouseDrawer's fields
\* autoDrawer        the SinusoidalDrawer's fields
\* matrix            the canvas transform the latest handler left behind
\* emitted           the lines the latest handler drew, in order (the output
\*                   handed to the rasterizer; empty after a handler that
\*                   draws no line)
\* steps             the number of draw() calls made on the current
\*                   SinusoidalDrawer since it was constructed
VARIABLES symmetry, angle, autoPaused, currentDrawer, mouseDrawer, autoDrawer,
          matrix, emitted, steps

vars == <<symmetry, angle, autoPaused, currentDrawer, mouseDrawer, autoDrawer,
          matrix, emitted, steps>>

-----------------------------------------------------------------------------
(* Bounds of the model *)

\* symmetry orders explored: the divisors of 360 in 2..MaxSymmetry
MaxSymmetry == 3
\* draw() calls explored on one SinusoidalDrawer instance
MaxSteps == 3
\* largest colour cursor explored, in ticks of 0.005
MaxCursor == 1300

-----------------------------------------------------------------------------
(* Program constants *)

w == 1000                       \* canvas width and height in pixels
width == w
height == w
TimeUnit == 200                 \* ticks of 0.005 in 1.0
ColorUnit == 200                \* ticks of 0.005 in one palette slot
AngleUnit == 20                 \* units of 0.05 degree in one degree
FullTurn == 360 * AngleUnit
DefaultTIncrement == 10 * TimeUnit
DefaultColorSpeed == 2          \* 0.01
DefaultWaveFreq == 10
DefaultWavePhaseInc == 2        \* 0.1 degree
drawRadius == 425               \* 0.85 * 1000 / 2

\* hexPalette, the RGB channels of each entry
hexPalette ==
  << <<35, 35, 39>>, <<167, 165, 163>>, <<229, 229, 227>>,
     <<19, 18, 19>>, <<50, 56, 77>>, <<149, 148, 148>> >>

-----------------------------------------------------------------------------
(* Inputs: the values the sliders, the pointer and random() may deliver *)

SymmetryValues == {n \in 2..MaxSymmetry : 360 % n = 0}
ColorRates == {0, 180}                      \* 0 and 0.9
DrawSpeeds == {0, TimeUnit * 5}             \* 0 and 5
RandomPhases == {0, 100}                    \* random(0, TWO_PI): 0 and 5
\* the pointer: released inside the canvas, pressed inside it, pressed on
\* its left edge, pressed on its bottom edge
ReleasedPointer ==
  [pressed |-> FALSE, mouseX |-> 503, mouseY |-> 498, pmouseX |-> 497, pmouseY |-> 505]
PointerStates ==
  { ReleasedPointer,
    [pressed |-> TRUE, mouseX |-> 503, mouseY |-> 498, pmouseX |-> 497, pmouseY |-> 505],
    [pressed |-> TRUE, mouseX |-> 0, mouseY |-> 498, pmouseX |-> 3, pmouseY |-> 505],
    [pressed |-> TRUE, mouseX |-> 503, mouseY |-> 1000, pmouseX |-> 497, pmouseY |-> 995] }

-----------------------------------------------------------------------------
(* The p5 canvas transform.  After translate(width/2, height/2) the current  *)
(* matrix is T * R(rot) * S^flip, with R a rotation by rot degrees and S the *)
(* reflection scale(1,-1); line(x1,y1,x2,y2) draws the image of its local    *)
(* points under it.  p5 post-multiplies: rotate(a) gives M * R(a) and        *)
(* scale(1,-1) gives M * S.  Only rot and flip are kept, so the recorded     *)
(* images are in center-relative (canvas) coordinates.                       *)

Identity == [rot |-> 0, flip |-> FALSE]
FlipY == [rot |-> 0, flip |-> TRUE]

\* the origin after translate(width / 2, height / 2), the matrix p5 hands
\* to draw() being reset before every frame
Translate == Identity

\* m1 * m2, using S * R(a) = R(-a) * S
Compose(m1, m2) ==
  [rot  |-> (m1.rot + (IF m1.flip THEN 360 - m2.rot ELSE m2.rot)) % 360,
   flip |-> (m1.flip /= m2.flip)]

\* a rotate() that sets the rotation instead of accumulating it
RotateAbsolute(m, a) == [rot |-> a % 360, flip |-> m.flip]

\* a scale(1, -1) applied in canvas coordinates, after the rotation
ScaleCanvas(m) == Compose(FlipY, m)

\* rotate(a): post-multiply by a rotation of a degrees
Rotate(m, a) == Compose(m, [rot |-> a % 360, flip |-> FALSE])

\* scale(1, -1): post-multiply by the reflection
Scale(m) == Compose(m, FlipY)

\* the inverse of R(rot) * S^flip (a reflection is its own inverse)
Inverse(m) == IF m.flip THEN m ELSE [rot |-> (360 - m.rot) % 360, flip |-> FALSE]

Origin == [x |-> 0, y |-> 0]

\* g maps the point p to itself: a rotation fixes the origin only; the
\* reflection R(rot) * S fixes its axis, at rot/2 degrees, which holds points
\* with the coordinates used here only at multiples of 45 degrees
Fixes(g, p) ==
  \/ p = Origin
  \/ ~g.flip /\ g.rot = 0
  \/ g.flip /\ g.rot = 0 /\ p.y = 0
  \/ g.flip /\ g.rot = 90 /\ p.x = p.y
  \/ g.flip /\ g.rot = 180 /\ p.x = 0
  \/ g.flip /\ g.rot = 270 /\ p.x = -p.y

\* the transforms m1 and m2 send the local point p to the same canvas point
SameImage(m1, m2, p) == Fixes(Compose(Inverse(m2), m1), p)

\* line(x1, y1, x2, y2) under the current matrix m, stroked with colour c
Line(m, a, b, c) == [m |-> m, a |-> a, b |-> b, color |-> c]

-----------------------------------------------------------------------------
(* Colour cycling, the same code in both drawers *)

PaletteLength == Len(hexPalette)

\* t = colorInterpolation % palette.length, palette being this.palette
ColorT(palette, cursor) == cursor % (Len(palette) * ColorUnit)

\* color1Index = floor(t)
Color1Index(palette, cursor) == ColorT(palette, cursor) \div ColorUnit

\* color2Index = (color1Index + 1) % palette.length
Color2Index(palette, cursor) == (Color1Index(palette, cursor) + 1) % Len(palette)

\* an interpolationFactor taken from the unwrapped cursor
InterpolationFactorUnwrapped(palette, cursor) ==
  cursor - Color1Index(palette, cursor) * ColorUnit

\* interpolationFactor = t - color1Index, in ticks of 1/ColorUnit
InterpolationFactor(palette, cursor) ==
  ColorT(palette, cursor) - Color1Index(palette, cursor) * ColorUnit

\* lerpColor(c1, c2, f): the linear blend, every channel scaled by ColorUnit
LerpColor(c1, c2, f) == [i \in 1..3 |-> c1[i] * (ColorUnit - f) + c2[i] * f]

\* the colour computed from the (already advanced) cursor
CurrentColor(palette, cursor) ==
  LerpColor(palette[Color1Index(palette, cursor) + 1],
            palette[Color2Index(palette, cursor) + 1],
            InterpolationFactor(palette, cursor))

\* an advance that takes the default speed when the speed is 0
AdvanceColorOrDefault(d) ==
  [d EXCEPT !.colorInterpolation =
     d.colorInterpolation + (IF d.colorInterpolationSpeed = 0 THEN DefaultColorSpeed
                             ELSE d.colorInterpolationSpeed)]

\* this.colorInterpolation += this.colorInterpolationSpeed
AdvanceColor(d) ==
  [d EXCEPT !.colorInterpolation = d.colorInterpolation + d.colorInterpolationSpeed]

-----------------------------------------------------------------------------
(* The kaleidoscope drawing loop, the same code in both drawers:            *)
(*   for (i = 0; i < symmetry; i++) { rotate(angle); line(..);              *)
(*                                    push(); scale(1,-1); line(..); pop() }*)
(* i counts the iterations done; the result is the matrix after the loop    *)
(* and the lines drawn, in order.                                           *)

\* the loop with the bound i <= symmetry
RECURSIVE KaleidoscopeLoopInclusive(_, _, _, _, _, _, _, _)
KaleidoscopeLoopInclusive(i, sym, ang, m, lines, a, b, c) ==
  IF i > sym THEN [matrix |-> m, lines |-> lines]
  ELSE LET rotated == Compose(m, [rot |-> ang % 360, flip |-> FALSE])
           mirrored == Compose(rotated, FlipY)
       IN KaleidoscopeLoopInclusive(i + 1, sym, ang, rotated,
                                    lines \o <<Line(rotated, a, b, c), Line(mirrored, a, b, c)>>,
                                    a, b, c)

RECURSIVE KaleidoscopeLoop(_, _, _, _, _, _, _, _)
KaleidoscopeLoop(i, sym, ang, m, lines, a, b, c) ==
  IF i >= sym THEN [matrix |-> m, lines |-> lines]
  ELSE LET rotated == Rotate(m, ang)
           mirrored == Scale(rotated)
       IN KaleidoscopeLoop(i + 1, sym, ang, rotated,
                           lines \o <<Line(rotated, a, b, c), Line(mirrored, a, b, c)>>,
                           a, b, c)

-----------------------------------------------------------------------------
(* MouseDrawer *)

\* new MouseDrawer()
NewMouseDrawer ==
  [palette |-> hexPalette,
   colorInterpolation |-> 0, colorInterpolationSpeed |-> DefaultColorSpeed]

\* the test without mouseIsPressed
MouseOverCanvas(ptr) ==
  /\ ptr.mouseX > 0 /\ ptr.mouseX < width
  /\ ptr.mouseY > 0 /\ ptr.mouseY < height

\* mouseIsPressed === true && mouseX > 0 && mouseX < width && mouseY > 0 && mouseY < height
MouseInCanvas(ptr) ==
  /\ ptr.pressed
  /\ ptr.mouseX > 0 /\ ptr.mouseX < width
  /\ ptr.mouseY > 0 /\ ptr.mouseY < height

\* lineStartX/Y: the mouse position relative to the center
LineStart(ptr) == [x |-> ptr.mouseX - width \div 2, y |-> ptr.mouseY - height \div 2]

\* lineEndX/Y: the previous mouse position relative to the center
LineEnd(ptr) == [x |-> ptr.pmouseX - width \div 2, y |-> ptr.pmouseY - height \div 2]

\* MouseDrawer.draw() under the matrix m: the drawer after it, the matrix after
\* it and the lines it drew
MouseDrawerDraw(d, ptr, sym, ang, m) ==
  IF MouseInCanvas(ptr)
  THEN LET c == AdvanceColor(d)
           loop == KaleidoscopeLoop(0, sym, ang, m, <<>>, LineStart(ptr), LineEnd(ptr),
                                    CurrentColor(c.palette, c.colorInterpolation))
       IN [drawer |-> c, matrix |-> loop.matrix, lines |-> loop.lines]
  ELSE [drawer |-> d, matrix |-> m, lines |-> <<>>]

-----------------------------------------------------------------------------
(* SinusoidalDrawer.  A coordinate radius * sin(theta) is recorded by the    *)
(* principal angle asin(sin(theta)), in angle units between -90 and 90       *)
(* degrees: for a fixed positive radius the coordinate is a strictly         *)
(* increasing function of it, 0 exactly when the coordinate is 0, so two     *)
(* coordinates of one wave are equal exactly when their records are.         *)

PrincipalAngle(theta) ==
  LET a == theta % FullTurn
  IN IF a <= FullTurn \div 4 THEN a
     ELSE IF a <= 3 * (FullTurn \div 4) THEN FullTurn \div 2 - a
     ELSE a - FullTurn

\* SinusoidalWave.value(t): sin or cos of t * freq + phase (degrees), times
\* radius; t is in ticks of 1/TimeUnit and the phase in angle units
WaveValue(wave, t) ==
  LET theta == (t * wave.freq * AngleUnit) \div TimeUnit + wave.phase
  IN IF wave.mode = "sin" THEN PrincipalAngle(theta)
     ELSE PrincipalAngle(theta + FullTurn \div 4)

\* an incrementPhase() that leaves the phase alone
IncrementPhaseNone(wave) == wave

\* SinusoidalWave.incrementPhase()
IncrementPhase(wave) == [wave EXCEPT !.phase = wave.phase + wave.phaseInc]

\* let x = 0; for (let wave of waves) x += wave.value(t), for the axes the
\* constructor builds, of at most one wave
SumWaves(waves, t) == IF waves = <<>> THEN 0 ELSE WaveValue(waves[1], t)

\* opts.f !== undefined, cfg.f !== undefined: an options object is a record
\* of the fields it gives
Has(opts, f) == f \in DOMAIN opts

\* opts = {}
NoOptions == [f \in {} |-> 0]

\* _createWavesFromConfig(configs): one wave per configuration, radius, freq,
\* phase and mode defaulted; random(0, TWO_PI) having returned phase.  Every
\* configuration here gives its phaseInc, as the constructor's own does.
CreateWavesFromConfig(configs, phase) ==
  [i \in DOMAIN configs |->
     LET cfg == configs[i]
     IN [radius |-> IF Has(cfg, "radius") THEN cfg.radius ELSE (drawRadius * 4) \div 10,
         freq |-> IF Has(cfg, "freq") THEN cfg.freq ELSE 1,
         phase |-> IF Has(cfg, "phase") THEN cfg.phase ELSE phase,
         phaseInc |-> cfg.phaseInc,
         mode |-> IF Has(cfg, "mode") THEN cfg.mode ELSE "sin"]]

\* this.xWaves: _createWavesFromConfig of the one default x wave
XWaves(phase) ==
  CreateWavesFromConfig(<< [radius |-> drawRadius, freq |-> DefaultWaveFreq,
                            phaseInc |-> DefaultWavePhaseInc, mode |-> "sin"] >>, phase)

\* this.yWaves: _createWavesFromConfig of the empty y configuration
YWaves == CreateWavesFromConfig(<< >>, 0)

\* a palette choice that takes whatever palette the options give
UsedPaletteAsGiven(opts) == IF Has(opts, "palette") THEN opts.palette ELSE hexPalette

\* usedHexPalette = opts.palette && opts.palette.length ? opts.palette : hexPalette
UsedPalette(opts) ==
  IF Has(opts, "palette") /\ Len(opts.palette) /= 0 THEN opts.palette ELSE hexPalette

\* a constructor that starts the time one default increment in
SinusoidalDrawerStarted(phase) ==
  [pos |-> Origin, prevPos |-> Origin, t |-> DefaultTIncrement + 1,
   tIncrement |-> DefaultTIncrement,
   xWaves |-> XWaves(phase), yWaves |-> YWaves,
   palette |-> hexPalette,
   colorInterpolation |-> 0, colorInterpolationSpeed |-> DefaultColorSpeed]

\* new SinusoidalDrawer(opts), random() having returned phase: the waves are
\* always the default ones, whatever opts holds
SinusoidalDrawerConstructor(opts, phase) ==
  [pos |-> Origin, prevPos |-> Origin,
   t |-> IF Has(opts, "t") THEN opts.t ELSE 0,
   tIncrement |-> IF Has(opts, "tIncrement") THEN opts.tIncrement ELSE DefaultTIncrement,
   xWaves |-> XWaves(phase), yWaves |-> YWaves,
   palette |-> UsedPalette(opts),
   colorInterpolation |->
     IF Has(opts, "colorInterpolation") THEN opts.colorInterpolation ELSE 0,
   colorInterpolationSpeed |->
     IF Has(opts, "colorInterpolationSpeed") THEN opts.colorInterpolationSpeed
     ELSE DefaultColorSpeed]

\* new SinusoidalDrawer(), as setup() and setAutoDrawer() call it
NewSinusoidalDrawer(phase) == SinusoidalDrawerConstructor(NoOptions, phase)

\* an update() without the autoPaused test
UpdateAlways(d, paused) ==
  [d EXCEPT !.prevPos = d.pos,
            !.pos = [x |-> SumWaves(d.xWaves, d.t), y |-> SumWaves(d.yWaves, d.t)],
            !.t = d.t + d.tIncrement,
            !.xWaves = [i \in DOMAIN d.xWaves |-> IncrementPhase(d.xWaves[i])],
            !.yWaves = [i \in DOMAIN d.yWaves |-> IncrementPhase(d.yWaves[i])]]

\* an update() that runs its body twice
UpdateTwice(d, paused) ==
  IF paused THEN d ELSE UpdateAlways(UpdateAlways(d, paused), paused)

\* SinusoidalDrawer.update()
Update(d, paused) ==
  IF paused THEN d
  ELSE [d EXCEPT !.prevPos = d.pos,
                 !.pos = [x |-> SumWaves(d.xWaves, d.t), y |-> SumWaves(d.yWaves, d.t)],
                 !.t = d.t + d.tIncrement,
                 !.xWaves = [i \in DOMAIN d.xWaves |-> IncrementPhase(d.xWaves[i])],
                 !.yWaves = [i \in DOMAIN d.yWaves |-> IncrementPhase(d.yWaves[i])]]

\* the test "Don't draw on the very first frame": this.t <= this.tIncrement
FirstFrame(d) == d.t <= d.tIncrement

\* a draw() that returns at once while paused
SinusoidalDrawerDrawUnlessPaused(d, paused, sym, ang, m) ==
  IF paused THEN [drawer |-> d, matrix |-> m, lines |-> <<>>]
  ELSE LET u == Update(d, paused)
       IN IF FirstFrame(u)
          THEN [drawer |-> [u EXCEPT !.prevPos = u.pos], matrix |-> m, lines |-> <<>>]
          ELSE LET c == AdvanceColor(u)
                   loop == KaleidoscopeLoop(0, sym, ang, m, <<>>, c.pos, c.prevPos,
                                            CurrentColor(c.palette, c.colorInterpolation))
               IN [drawer |-> c, matrix |-> loop.matrix, lines |-> loop.lines]

\* a draw() whose first-frame branch returns without setting prevPos
SinusoidalDrawerDrawKeepPrev(d, paused, sym, ang, m) ==
  LET u == Update(d, paused)
  IN IF FirstFrame(u)
     THEN [drawer |-> u, matrix |-> m, lines |-> <<>>]
     ELSE LET c == AdvanceColor(u)
              loop == KaleidoscopeLoop(0, sym, ang, m, <<>>, c.pos, c.prevPos,
                                       CurrentColor(c.palette, c.colorInterpolation))
          IN [drawer |-> c, matrix |-> loop.matrix, lines |-> loop.lines]

\* SinusoidalDrawer.draw() under the matrix m
SinusoidalDrawerDraw(d, paused, sym, ang, m) ==
  LET u == Update(d, paused)
  IN IF FirstFrame(u)
     THEN [drawer |-> [u EXCEPT !.prevPos = u.pos], matrix |-> m, lines |-> <<>>]
     ELSE LET c == AdvanceColor(u)
              loop == KaleidoscopeLoop(0, sym, ang, m, <<>>, c.pos, c.prevPos,
                                       CurrentColor(c.palette, c.colorInterpolation))
          IN [drawer |-> c, matrix |-> loop.matrix, lines |-> loop.lines]

-----------------------------------------------------------------------------
(* The sketch: setup(), draw() and the handlers *)

\* clearCanvas(): push(); resetMatrix(); background and disc; pop() restores
\* the matrix it found
ClearCanvasMatrix(m) == m

\* the state after setup(): globals as declared, both drawers created, the
\* mouse drawer current, the canvas cleared
Init ==
  /\ symmetry = 12
  /\ angle = 360 \div 12
  /\ autoPaused = FALSE
  /\ currentDrawer = "mouse"
  /\ mouseDrawer = NewMouseDrawer
  /\ \E phase \in RandomPhases : autoDrawer = NewSinusoidalDrawer(phase)
  /\ matrix = Identity
  /\ emitted = <<>>
  /\ steps = 0

\* a step that keeps the global's value of the frame before
AngleKept(n) == angle

\* angle = 360 / symmetry, symmetry just read from the slider
AngleOf(n) == 360 \div n

\* one frame: draw(), the sliders reading n, rate and speed and the pointer
\* being in state ptr
DrawFrame(n, rate, speed, ptr) ==
  LET ang == AngleOf(n)
      md == [mouseDrawer EXCEPT !.colorInterpolationSpeed = rate]
      ad == [autoDrawer EXCEPT !.colorInterpolationSpeed = rate, !.tIncrement = speed]
      r == IF currentDrawer = "mouse"
           THEN MouseDrawerDraw(md, ptr, n, ang, Translate)
           ELSE SinusoidalDrawerDraw(ad, autoPaused, n, ang, Translate)
  IN /\ currentDrawer = "auto" => steps < MaxSteps
     /\ r.drawer.colorInterpolation <= MaxCursor
     /\ symmetry' = n
     /\ angle' = ang
     /\ mouseDrawer' = IF currentDrawer = "mouse" THEN r.drawer ELSE md
     /\ autoDrawer' = IF currentDrawer = "auto" THEN r.drawer ELSE ad
     /\ matrix' = r.matrix
     /\ emitted' = r.lines
     /\ steps' = IF currentDrawer = "auto" THEN steps + 1 ELSE steps
     /\ UNCHANGED <<autoPaused, currentDrawer>>

\* draw() with every input; the auto drawer does not read the pointer, so
\* one pointer state stands for all of them in its frames
Draw ==
  \E n \in SymmetryValues, rate \in ColorRates, speed \in DrawSpeeds, ptr \in PointerStates :
    /\ currentDrawer = "auto" => ptr = ReleasedPointer
    /\ DrawFrame(n, rate, speed, ptr)

\* setMouseDrawer()
SetMouseDrawer ==
  /\ currentDrawer' = "mouse"
  /\ matrix' = ClearCanvasMatrix(matrix)
  /\ emitted' = <<>>
  /\ UNCHANGED <<symmetry, angle, autoPaused, mouseDrawer, autoDrawer, steps>>

\* setAutoDrawer()
SetAutoDrawer ==
  /\ \E phase \in RandomPhases : autoDrawer' = NewSinusoidalDrawer(phase)
  /\ currentDrawer' = "auto"
  /\ matrix' = ClearCanvasMatrix(matrix)
  /\ emitted' = <<>>
  /\ steps' = 0
  /\ UNCHANGED <<symmetry, angle, autoPaused, mouseDrawer>>

\* a toggle that acts only while the auto drawer is current
ToggleAutoPauseInAutoMode ==
  /\ autoPaused' = IF currentDrawer = "auto" THEN ~autoPaused ELSE autoPaused
  /\ emitted' = <<>>
  /\ UNCHANGED <<symmetry, angle, currentDrawer, mouseDrawer, autoDrawer, matrix, steps>>

\* toggleAutoPause()
ToggleAutoPause ==
  /\ autoPaused' = ~autoPaused
  /\ emitted' = <<>>
  /\ UNCHANGED <<symmetry, angle, currentDrawer, mouseDrawer, autoDrawer, matrix, steps>>

\* clearCanvas(), from the Clear button or the 'c' / 'C' key
ClearCanvas ==
  /\ matrix' = ClearCanvasMatrix(matrix)
  /\ emitted' = <<>>
  /\ UNCHANGED <<symmetry, angle, autoPaused, currentDrawer, mouseDrawer, autoDrawer, steps>>

Next ==
  \/ Draw
  \/ SetMouseDrawer
  \/ SetAutoDrawer
  \/ ToggleAutoPause
  \/ ClearCanvas

Spec == Init /\ [][Next]_vars

-----------------------------------------------------------------------------
(* The constructor's options.  setup() and setAutoDrawer() pass none; the   *)
(* constructor documents an options object, and this second specification   *)
(* lets the generator be created with one.                                  *)

\* a palette of one colour
SinglePalette == << hexPalette[2] >>

\* options objects after the constructor's documentation: oscillator lists
\* for both axes, an empty palette, and a palette of one colour with a
\* starting cursor or a starting time
Options ==
  << [tIncrement |-> 10,
      xWaves |-> << [radius |-> 100, freq |-> 1, phaseInc |-> 1],
                    [radius |-> 100, freq |-> 2, phaseInc |-> 1] >>,
      yWaves |-> << [radius |-> 100, freq |-> 3, phaseInc |-> 1, mode |-> "cos"] >>],
     [palette |-> << >>],
     [palette |-> SinglePalette, colorInterpolation |-> 150],
     [palette |-> SinglePalette, t |-> TimeUnit] >>

\* autoDrawer = new SinusoidalDrawer(opts), in place of setAutoDrawer()'s
\* new SinusoidalDrawer()
SetAutoDrawerWith(opts, phase) ==
  /\ autoDrawer' = SinusoidalDrawerConstructor(opts, phase)
  /\ currentDrawer' = "auto"
  /\ matrix' = ClearCanvasMatrix(matrix)
  /\ emitted' = <<>>
  /\ steps' = 0
  /\ UNCHANGED <<symmetry, angle, autoPaused, mouseDrawer>>

SetAutoDrawerWithOptions ==
  \E k \in DOMAIN Options, phase \in RandomPhases : SetAutoDrawerWith(Options[k], phase)

NextWithOptions ==
  \/ Draw
  \/ SetAutoDrawerWithOptions

SpecWithOptions == Init /\ [][NextWithOptions]_vars

-----------------------------------------------------------------------------
(* Properties of one frame's output.  emitted holds the lines the latest    *)
(* handler drew, in order: iteration k of the loop drew emitted[2k-1] (the  *)
(* rotated copy) and emitted[2k] (the reflected copy).                      *)

Drew == emitted /= <<>>
RotatedCopies == {i \in DOMAIN emitted : ~emitted[i].m.flip}
MirroredCopies == {i \in DOMAIN emitted : emitted[i].m.flip}
RotatedOf(k) == emitted[2 * k - 1]
MirroredOf(k) == emitted[2 * k]

\* C1: a frame that draws emits exactly 2 * symmetry lines, symmetry of them
\* rotated copies and symmetry of them mirrored copies, all of one input
\* segment.
C1_TwoNSegments ==
  Drew =>
    /\ symmetry >= 2
    /\ Len(emitted) = 2 * symmetry
    /\ Cardinality(RotatedCopies) = symmetry
    /\ Cardinality(MirroredCopies) = symmetry
    /\ \A i \in DOMAIN emitted : emitted[i].a = emitted[1].a /\ emitted[i].b = emitted[1].b

\* a procedural frame has drawn with symmetry order 3
C1_Witness == Drew /\ currentDrawer = "auto" /\ symmetry = 3 /\ Len(emitted) = 6

\* C2: the unmirrored copies of a frame are the input rotated by i * (360 /
\* symmetry) degrees from the unrotated frame, for each i in 0..symmetry-1
\* exactly once; symmetry applications of the step give back the unrotated
\* matrix, so no rotation is left over for the next frame.
C2_RotationMultiples ==
  /\ matrix = Identity
  /\ Drew =>
       /\ angle * symmetry = 360
       /\ Cardinality(RotatedCopies) = symmetry
       /\ \A i \in 0..(symmetry - 1) :
            Cardinality({j \in RotatedCopies : emitted[j].m.rot = (i * angle) % 360}) = 1
       /\ emitted[1].m = [rot |-> angle % 360, flip |-> FALSE]

\* a pointer frame has drawn its three rotated copies, at 120, 240 and 0 degrees
C2_Witness ==
  /\ Drew /\ currentDrawer = "mouse" /\ symmetry = 3
  /\ {emitted[j].m.rot : j \in RotatedCopies} = {0, 120, 240}

\* the y-negation, in canvas coordinates, of what the matrix m draws
CanvasMirror(m) == Compose(FlipY, m)

\* C3 (as amended): in iteration k the mirrored line is drawn with the
\* reflection applied before that iteration's rotation (matrix R * S), so on
\* the canvas it is the y-negation of the rotated line of iteration
\* symmetry - k (of the last iteration when k = symmetry); it is the
\* y-negation of its own iteration's rotated line exactly when twice that
\* iteration's rotation is a multiple of 360 degrees or the point is the center.
C3_MirrorInRotatedFrame ==
  Drew =>
    \A k \in 1..symmetry :
      LET rotated == RotatedOf(k)
          mirrored == MirroredOf(k)
          j == IF k = symmetry THEN symmetry ELSE symmetry - k
      IN /\ ~rotated.m.flip
         /\ rotated.m.rot = (k * angle) % 360
         /\ mirrored.m = [rot |-> rotated.m.rot, flip |-> TRUE]
         /\ mirrored.a = rotated.a /\ mirrored.b = rotated.b
         /\ mirrored.m = CanvasMirror(RotatedOf(j).m)
         /\ \A p \in {rotated.a, rotated.b} :
              SameImage(mirrored.m, CanvasMirror(rotated.m), p)
                <=> ((2 * rotated.m.rot) % 360 = 0 \/ p = Origin)

\* a frame has drawn, with symmetry order 3, a segment with an end off the center
C3_Witness ==
  /\ Drew /\ symmetry = 3
  /\ emitted[1].a /= Origin
  /\ emitted[2].m = [rot |-> 120, flip |-> TRUE]

\* C3 (as stated): in every iteration the mirrored line is, on the canvas, the
\* rotated line of the same iteration with the y-coordinate of both ends negated.
C3_MirrorOfSameIteration ==
  Drew =>
    \A k \in 1..symmetry :
      /\ SameImage(MirroredOf(k).m, CanvasMirror(RotatedOf(k).m), RotatedOf(k).a)
      /\ SameImage(MirroredOf(k).m, CanvasMirror(RotatedOf(k).m), RotatedOf(k).b)

-----------------------------------------------------------------------------
(* Properties of the trajectory generator.  steps counts the draw() calls    *)
(* made on the current SinusoidalDrawer, so a transition with steps' =       *)
(* steps + 1 is a frame of the auto drawer, and autoPaused, which a frame    *)
(* leaves alone, is the pause flag that frame ran under.                     *)

AutoFrame == steps' = steps + 1
Phases(d) == <<[i \in DOMAIN d.xWaves |-> d.xWaves[i].phase],
               [i \in DOMAIN d.yWaves |-> d.yWaves[i].phase]>>

\* C4: the update() of a frame taken while autoPaused is set changes nothing:
\* time, position and every wave's phase are after the frame what they were
\* before it, and the previous position too unless draw()'s own first-frame
\* branch, which follows update(), rewrites it.
C4_PausedUpdateIsNoOp ==
  [][(AutoFrame /\ autoPaused) =>
       /\ autoDrawer'.t = autoDrawer.t
       /\ autoDrawer'.pos = autoDrawer.pos
       /\ Phases(autoDrawer') = Phases(autoDrawer)
       /\ (~FirstFrame(autoDrawer') => autoDrawer'.prevPos = autoDrawer.prevPos)
       /\ Update(autoDrawer', TRUE) = autoDrawer']_vars

\* a paused frame has run on a generator that had moved, and has redrawn its
\* segment
C4_Witness ==
  /\ autoPaused /\ currentDrawer = "auto" /\ Drew /\ steps = 3
  /\ autoDrawer.t = TimeUnit * 5
  /\ autoDrawer.pos /= autoDrawer.prevPos

\* C5 (as stated): the first draw() on a generator draws nothing and leaves
\* the colour cursor alone, and the second draws a segment whose previous
\* position is the position the first one produced.
C5_SecondStepDraws ==
  [][/\ (AutoFrame /\ steps = 0) =>
          /\ emitted' = <<>>
          /\ autoDrawer'.colorInterpolation = autoDrawer.colorInterpolation
     /\ (AutoFrame /\ steps = 1) =>
          /\ emitted' /= <<>>
          /\ autoDrawer'.prevPos = autoDrawer.pos
          /\ emitted'[1].b = autoDrawer.pos]_vars

\* C6 (as stated): no draw() after a generator's first one is a 'no draw'.
C6_NoDrawOnlyOnFirstStep ==
  [][(AutoFrame /\ steps >= 1) => emitted' /= <<>>]_vars

\* a generator as the constructor leaves it
Fresh(d) ==
  /\ d.t = 0
  /\ d.pos = Origin /\ d.prevPos = Origin
  /\ d.colorInterpolation = 0

\* C7: setAutoDrawer(), in either mode and however often, installs a new
\* generator with time 0, both positions at the origin and the colour cursor
\* at 0, which stays so until its first draw(), and that draw() draws
\* nothing; setMouseDrawer() leaves the mouse drawer as it is.
C7_SwitchRestartsGenerator ==
  [][/\ SetAutoDrawer =>
          /\ Fresh(autoDrawer') /\ steps' = 0 /\ currentDrawer' = "auto"
          /\ mouseDrawer' = mouseDrawer
     /\ steps' = 0 => Fresh(autoDrawer')
     /\ (AutoFrame /\ steps = 0) =>
          /\ emitted' = <<>>
          /\ autoDrawer'.colorInterpolation = 0
     /\ SetMouseDrawer =>
          /\ mouseDrawer' = mouseDrawer /\ currentDrawer' = "mouse"]_vars

\* the pointer drawer has drawn, the mode was switched, and the new
\* generator's first frame has drawn nothing
C7_Witness ==
  /\ currentDrawer = "auto" /\ steps = 1 /\ emitted = <<>>
  /\ mouseDrawer.colorInterpolation > 0
  /\ autoDrawer.t > 0

\* C8: a frame of the auto drawer taken while not paused adds that frame's
\* tIncrement to the time and one phaseInc to every wave's phase, once; while
\* the mouse drawer is current no step changes the generator's time,
\* positions or phases.
C8_OneStepPerFrame ==
  [][/\ (AutoFrame /\ ~autoPaused) =>
          /\ autoDrawer'.t = autoDrawer.t + autoDrawer'.tIncrement
          /\ \A i \in DOMAIN autoDrawer.xWaves :
               autoDrawer'.xWaves[i].phase =
                 autoDrawer.xWaves[i].phase + autoDrawer.xWaves[i].phaseInc
          /\ \A i \in DOMAIN autoDrawer.yWaves :
               autoDrawer'.yWaves[i].phase =
                 autoDrawer.yWaves[i].phase + autoDrawer.yWaves[i].phaseInc
          /\ DOMAIN autoDrawer'.xWaves = DOMAIN autoDrawer.xWaves
          /\ DOMAIN autoDrawer'.yWaves = DOMAIN autoDrawer.yWaves
     /\ (currentDrawer = "mouse" /\ currentDrawer' = "mouse") =>
          /\ autoDrawer'.t = autoDrawer.t
          /\ autoDrawer'.pos = autoDrawer.pos
          /\ autoDrawer'.prevPos = autoDrawer.prevPos
          /\ Phases(autoDrawer') = Phases(autoDrawer)]_vars

\* a pointer frame has drawn while a generator that had run two frames was kept
C8_Witness ==
  /\ currentDrawer = "mouse" /\ Drew
  /\ steps = 2 /\ autoDrawer.t = TimeUnit * 10
  /\ autoDrawer.xWaves[1].phase \in {p + 2 * DefaultWavePhaseInc : p \in RandomPhases}

-----------------------------------------------------------------------------
(* Properties of the colour cursor and of the pointer frame *)

\* the drawer whose draw() the frame calls
Current == IF currentDrawer = "mouse" THEN mouseDrawer ELSE autoDrawer

\* the blend of the two palette entries next to the cursor, as the claim
\* states it, every channel scaled by ColorUnit
BlendAt(cursor) ==
  LET L == Len(hexPalette)
      idx == cursor % (L * ColorUnit)
      lo == idx \div ColorUnit
      hi == (lo + 1) % L
      f == idx - lo * ColorUnit
  IN [ch \in 1..3 |-> hexPalette[lo + 1][ch] * (ColorUnit - f) + hexPalette[hi + 1][ch] * f]

CursorInRange(cursor) ==
  /\ Color1Index(hexPalette, cursor) \in 0..(PaletteLength - 1)
  /\ Color2Index(hexPalette, cursor) \in 0..(PaletteLength - 1)
  /\ Color2Index(hexPalette, cursor) = (Color1Index(hexPalette, cursor) + 1) % PaletteLength
  /\ InterpolationFactor(hexPalette, cursor) \in 0..(ColorUnit - 1)
  /\ Color1Index(hexPalette, cursor) * ColorUnit + InterpolationFactor(hexPalette, cursor)
       = cursor % (PaletteLength * ColorUnit)

\* C9: a frame that draws first adds the current speed to its drawer's cursor
\* and strokes every line with the blend of palette[floor(idx)] and
\* palette[(floor(idx) + 1) mod L] by idx - floor(idx), idx the advanced
\* cursor mod L; both indices stay in 0..L-1 and the factor in [0, 1) for
\* every cursor reached, and the cursor of a drawer never decreases (a new
\* generator brings its own cursor).
C9_ColorFromAdvancedCursor ==
  /\ mouseDrawer.palette = hexPalette /\ autoDrawer.palette = hexPalette
  /\ CursorInRange(mouseDrawer.colorInterpolation)
  /\ CursorInRange(autoDrawer.colorInterpolation)
  /\ [][/\ CursorInRange(mouseDrawer'.colorInterpolation)
        /\ CursorInRange(autoDrawer'.colorInterpolation)
        /\ mouseDrawer'.colorInterpolation >= mouseDrawer.colorInterpolation
        /\ ~SetAutoDrawer => autoDrawer'.colorInterpolation >= autoDrawer.colorInterpolation
        /\ emitted' /= <<>> =>
             /\ Current'.colorInterpolation
                  = Current.colorInterpolation + Current'.colorInterpolationSpeed
             /\ \A i \in DOMAIN emitted' :
                  emitted'[i].color = BlendAt(Current'.colorInterpolation)
        /\ emitted' = <<>> =>
             /\ mouseDrawer'.colorInterpolation = mouseDrawer.colorInterpolation
             /\ ~SetAutoDrawer =>
                  autoDrawer'.colorInterpolation = autoDrawer.colorInterpolation]_vars

\* the pointer drawer's cursor has gone once round the palette and a frame has
\* blended the last entry with the first
C9_Witness ==
  /\ currentDrawer = "mouse" /\ Drew
  /\ mouseDrawer.colorInterpolation >= PaletteLength * ColorUnit
  /\ \E c \in {mouseDrawer.colorInterpolation - k * 180 : k \in 0..1} :
       Color1Index(hexPalette, c) = PaletteLength - 1 /\ Color2Index(hexPalette, c) = 0

PointerDraws(ptr) ==
  /\ ptr.pressed
  /\ 0 < ptr.mouseX /\ ptr.mouseX < w
  /\ 0 < ptr.mouseY /\ ptr.mouseY < w

-----------------------------------------------------------------------------
(* Properties of the generator's motion, pause and construction *)

\* the value update() gives the x coordinate from the time and phases of d
XAt(d) ==
  LET wave == d.xWaves[1]
  IN PrincipalAngle((d.t * wave.freq * AngleUnit) \div TimeUnit + wave.phase)

\* an unpaused frame of the generator with draw speed 0
ZeroStepFrame == AutoFrame /\ ~autoPaused /\ autoDrawer'.tIncrement = 0

\* C11 (as stated, for a generator that has taken its first step): with draw
\* speed 0 and the pause flag clear, a frame leaves currentPosition unchanged.
C11_ZeroStepFreezesPosition ==
  [][(ZeroStepFrame /\ steps >= 1) => autoDrawer'.pos = autoDrawer.pos]_vars

\* C11 (as amended): with draw speed 0 and the pause flag clear a frame keeps
\* the generator's time, but advances every oscillator phase by its drift and
\* moves currentPosition to the oscillator sum at the unchanged time with the
\* phases the frame found, the old position becoming previousPosition; at
\* time 0 nothing is drawn, at a later time the segment between the two
\* positions is.
C11_ZeroStepKeepsTimeOnly ==
  [][ZeroStepFrame =>
       /\ autoDrawer'.t = autoDrawer.t
       /\ \A i \in DOMAIN autoDrawer.xWaves :
            autoDrawer'.xWaves[i].phase
              = autoDrawer.xWaves[i].phase + autoDrawer.xWaves[i].phaseInc
       /\ autoDrawer'.pos = [x |-> XAt(autoDrawer), y |-> 0]
       /\ autoDrawer.t = 0 => emitted' = <<>> /\ autoDrawer'.prevPos = autoDrawer'.pos
       /\ autoDrawer.t > 0 =>
            /\ autoDrawer'.prevPos = autoDrawer.pos
            /\ Len(emitted') = 2 * symmetry'
            /\ \A i \in DOMAIN emitted' :
                 emitted'[i].a = autoDrawer'.pos /\ emitted'[i].b = autoDrawer.pos]_vars

\* two unpaused frames with draw speed 0 have moved a generator, still at time
\* 0, off the position its first step gave it
C11_Witness ==
  /\ currentDrawer = "auto" /\ ~autoPaused /\ steps = 2
  /\ autoDrawer.t = 0 /\ autoDrawer.tIncrement = 0
  /\ autoDrawer.xWaves[1].phase = 2 * DefaultWavePhaseInc
  /\ autoDrawer.pos = [x |-> DefaultWavePhaseInc, y |-> 0]

\* C12 (as stated): a toggle flips the pause flag while the auto drawer is
\* current and leaves it as it was while the mouse drawer is; it never
\* touches the generator.
C12_ToggleOnlyInProceduralMode ==
  [][ToggleAutoPause =>
       /\ autoPaused' = IF currentDrawer = "auto" THEN ~autoPaused ELSE autoPaused
       /\ autoDrawer' = autoDrawer]_vars

\* C12 (as amended): a toggle flips the pause flag whichever drawer is
\* current, and changes nothing else: the generator is the same object with
\* the same time, positions and oscillator phases, and the mode, the mouse
\* drawer and the canvas transform are kept.
C12_ToggleFlipsInEitherMode ==
  [][ToggleAutoPause =>
       /\ autoPaused' = ~autoPaused
       /\ autoDrawer' = autoDrawer
       /\ autoDrawer'.t = autoDrawer.t
       /\ autoDrawer'.pos = autoDrawer.pos /\ autoDrawer'.prevPos = autoDrawer.prevPos
       /\ Phases(autoDrawer') = Phases(autoDrawer)
       /\ currentDrawer' = currentDrawer /\ mouseDrawer' = mouseDrawer
       /\ matrix' = matrix /\ steps' = steps]_vars

\* the flag is set while the mouse drawer is current, and the generator that
\* ran two frames still holds their time and phases
C12_Witness ==
  /\ currentDrawer = "mouse" /\ autoPaused /\ emitted = <<>>
  /\ steps = 2 /\ autoDrawer.t = 2 * (TimeUnit * 5)
  /\ autoDrawer.pos /= autoDrawer.prevPos
  /\ autoDrawer.xWaves[1].phase \in {p + 2 * DefaultWavePhaseInc : p \in RandomPhases}

\* C13 (as stated): after a frame in which the generator stepped,
\* previousPosition is the currentPosition it held before that step, the
\* first frame after construction included.
C13_PreviousIsPositionBeforeStep ==
  [][(AutoFrame /\ ~autoPaused) => autoDrawer'.prevPos = autoDrawer.pos]_vars

\* C13 (as amended): a frame draws nothing exactly when the generator's time
\* after it is at most the draw speed, and such a frame leaves
\* previousPosition equal to the new currentPosition; after an unpaused frame
\* that draws, previousPosition is the currentPosition held before the step
\* and is the far end of the segment drawn; a paused frame that draws leaves
\* both positions as they were.
C13_PreviousPositionPerBranch ==
  [][AutoFrame =>
       /\ (emitted' = <<>>) <=> (autoDrawer'.t <= autoDrawer'.tIncrement)
       /\ emitted' = <<>> => autoDrawer'.prevPos = autoDrawer'.pos
       /\ (emitted' /= <<>> /\ ~autoPaused) =>
            /\ autoDrawer'.prevPos = autoDrawer.pos
            /\ emitted'[1].a = autoDrawer'.pos /\ emitted'[1].b = autoDrawer.pos
       /\ (emitted' /= <<>> /\ autoPaused) =>
            /\ autoDrawer'.prevPos = autoDrawer.prevPos
            /\ autoDrawer'.pos = autoDrawer.pos]_vars

\* the first frame of a generator has stepped it off the origin and left
\* previousPosition on the new position
C13_Witness ==
  /\ currentDrawer = "auto" /\ ~autoPaused /\ steps = 1 /\ emitted = <<>>
  /\ autoDrawer.t = TimeUnit * 5
  /\ autoDrawer.pos /= Origin /\ autoDrawer.prevPos = autoDrawer.pos

\* C14: a generator constructed with oscillator lists in its options has
\* exactly the oscillators the lists describe, on each axis; one constructed
\* without them has the default single x oscillator and no y oscillator, and
\* the y coordinate of its positions is 0.
C14_SuppliedOscillatorsUsed ==
  /\ (autoDrawer.yWaves = <<>>) => (autoDrawer.pos.y = 0 /\ autoDrawer.prevPos.y = 0)
  /\ [][\A k \in DOMAIN Options, phase \in RandomPhases :
          SetAutoDrawerWith(Options[k], phase) =>
            LET opts == Options[k]
            IN /\ Has(opts, "xWaves") =>
                    autoDrawer'.xWaves = CreateWavesFromConfig(opts.xWaves, phase)
               /\ Has(opts, "yWaves") =>
                    autoDrawer'.yWaves = CreateWavesFromConfig(opts.yWaves, phase)
               /\ (~Has(opts, "xWaves") /\ ~Has(opts, "yWaves")) =>
                    /\ autoDrawer'.xWaves = XWaves(phase)
                    /\ autoDrawer'.yWaves = <<>>]_vars

\* C15: the symmetry order is always an integer of at least 2 and the step is
\* always 360 / that order, both set by the same frame; a frame that draws
\* ran its loop symmetry times and turned by that step each time, so no
\* frame draws with a step left from another symmetry order.
C15_StepFromCurrentSymmetry ==
  /\ symmetry \in Nat /\ symmetry >= 2
  /\ angle = 360 \div symmetry
  /\ Drew =>
       /\ Len(emitted) = 2 * symmetry
       /\ \A k \in 1..symmetry :
            /\ RotatedOf(k).m.rot = (k * (360 \div symmetry)) % 360
            /\ MirroredOf(k).m.rot = (k * (360 \div symmetry)) % 360

\* the slider moved from the declared order 12 to 2, and a pointer frame has
\* drawn its four lines with the step 180
C15_Witness ==
  /\ Drew /\ currentDrawer = "mouse"
  /\ symmetry = 2 /\ angle = 180 /\ Len(emitted) = 4
  /\ RotatedOf(1).m.rot = 180 /\ RotatedOf(2).m.rot = 0

\* the single entry of a one-colour palette, every channel scaled by ColorUnit
OnlyColor(palette) == [ch \in 1..3 |-> palette[1][ch] * ColorUnit]

\* C16: no drawer ever holds an empty palette (construction with an empty or
\* missing palette takes the default one); on a generator whose palette has
\* one entry both blend indices are 0 at every cursor, the colour computed is
\* that entry, and every line a frame draws is stroked with it.
C16_SinglePaletteColor ==
  /\ mouseDrawer.palette = hexPalette
  /\ autoDrawer.palette \in {hexPalette, SinglePalette}
  /\ Len(autoDrawer.palette) >= 1
  /\ Len(autoDrawer.palette) = 1 =>
       LET palette == autoDrawer.palette
           cursor == autoDrawer.colorInterpolation
       IN /\ Color1Index(palette, cursor) = 0
          /\ Color2Index(palette, cursor) = 0
          /\ InterpolationFactor(palette, cursor) = cursor % ColorUnit
          /\ CurrentColor(palette, cursor) = OnlyColor(palette)
          /\ (Drew /\ currentDrawer = "auto") =>
               \A i \in DOMAIN emitted : emitted[i].color = OnlyColor(palette)

\* a generator with a one-colour palette has drawn with its cursor wrapped
\* past the palette's length, part of the way to the next whole number
C16_Witness ==
  /\ Drew /\ currentDrawer = "auto"
  /\ Len(autoDrawer.palette) = 1
  /\ autoDrawer.colorInterpolation > ColorUnit
  /\ autoDrawer.colorInterpolation % ColorUnit /= 0

\* C17: a frame that draws with the colour rate 0 leaves its drawer's cursor
\* where it was and strokes every line with the colour of that cursor, which
\* is the colour of the drawing frame just before it, in either mode.
C17_ZeroSpeedKeepsColor ==
  [][(emitted' /= <<>> /\ Current'.colorInterpolationSpeed = 0) =>
       /\ Current'.colorInterpolation = Current.colorInterpolation
       /\ \A i \in DOMAIN emitted' :
            emitted'[i].color = CurrentColor(Current.palette, Current.colorInterpolation)
       /\ emitted /= <<>> => \A i \in DOMAIN emitted' : emitted'[i].color = emitted[1].color]_vars

\* the generator has drawn with the colour rate 0 after a frame that had
\* moved its cursor off a palette entry
C17_Witness ==
  /\ Drew /\ currentDrawer = "auto" /\ steps = 3
  /\ autoDrawer.colorInterpolationSpeed = 0
  /\ autoDrawer.colorInterpolation = 180

\* a frame of the generator while the pause flag is set
PausedFrame == AutoFrame /\ autoPaused

\* C18: a paused frame of a generator whose time is above the draw speed
\* keeps its time and positions, advances the colour cursor by the colour
\* rate and draws the 2 * symmetry copies of the segment between the
\* positions it holds; the mode switches keep the pause flag; and a paused
\* frame of a generator at time 0 leaves it at time 0 with its cursor and
\* draws nothing.
C18_PauseSuppressesStepOnly ==
  [][/\ (PausedFrame /\ autoDrawer.t > autoDrawer'.tIncrement) =>
          /\ autoDrawer'.t = autoDrawer.t
          /\ autoDrawer'.pos = autoDrawer.pos /\ autoDrawer'.prevPos = autoDrawer.prevPos
          /\ Phases(autoDrawer') = Phases(autoDrawer)
          /\ autoDrawer'.colorInterpolation
               = autoDrawer.colorInterpolation + autoDrawer'.colorInterpolationSpeed
          /\ Len(emitted') = 2 * symmetry'
          /\ \A i \in DOMAIN emitted' :
               emitted'[i].a = autoDrawer.pos /\ emitted'[i].b = autoDrawer.prevPos
     /\ (SetAutoDrawer \/ SetMouseDrawer) => autoPaused' = autoPaused
     /\ (SetAutoDrawer /\ autoPaused) => (autoPaused' /\ autoDrawer'.t = 0)
     /\ (PausedFrame /\ autoDrawer.t = 0) =>
          /\ autoDrawer'.t = 0
          /\ autoDrawer'.colorInterpolation = autoDrawer.colorInterpolation
          /\ emitted' = <<>>]_vars

\* a third frame, paused, has drawn again the segment of the second and moved
\* the cursor a second time
C18_Witness ==
  /\ currentDrawer = "auto" /\ autoPaused /\ Drew /\ steps = 3
  /\ autoDrawer.colorInterpolation = 2 * 180
  /\ autoDrawer.pos /= autoDrawer.prevPos
  /\ emitted[1].a = autoDrawer.pos /\ emitted[1].b = autoDrawer.prevPos

====
